---- MODULE Spec2Model ----
(***************************************************************************)
(* sc::vector<T> of source/include/vector.h, instantiated at an integral   *)
(* element type (pop_back writes value_type(0u)).  One vector object v is  *)
(* driven through its public member functions; every action is one call.   *)
(*                                                                          *)
(* Iterators are modelled by their offset from begin(), a signed distance.  *)
(* new value_type[n] of an integral type leaves the n slots indeterminate:  *)
(* every content over Vals is a possible outcome.  A call that reads or     *)
(* writes outside the buffer, or that leaves m_end above m_capacity, sets   *)
(* ub; behaviours are not followed past such a state.                       *)
(*                                                                          *)
(* op, err, ret and pre hold the last call, the exception it threw, the     *)
(* value it returned and the vector before it, until the caller takes them  *)
(* (Return).  moved says that the call replaced the array m_storage owns:   *)
(* begin() is then a new address, and every iterator taken before the call  *)
(* points into the released array.                                          *)
(***************************************************************************)
EXTENDS Integers, Sequences, FiniteSets, TLC

\* Bounds of the model.
MaxCap == 4
MaxVal == 1
MaxList == 2
MaxCopyCap == 2

\* size_type is unsigned long (64 bit).  TLC integers are 32 bit, so the
\* modulus of the unsigned arithmetic is scaled down to 2^30; it stays far
\* above every capacity of the model, which is all the code's wrap-around
\* comparisons depend on.
SizeTypeModulus == 1073741824

\* value_type(0u), the value pop_back writes into the vacated slot.
DefaultValue == 0

Vals == 0..MaxVal
Lists == UNION {[1..n -> Vals] : n \in 0..MaxList}

VARIABLES v, op, err, ret, pre, ub, moved, other, pre_other, shared

vars == <<v, op, err, ret, pre, ub, moved, other, pre_other, shared>>

----------------------------------------------------------------------------
\* Integer conversions.

\* difference_type -> size_type (unsigned): reduction modulo the word size.
ToSize(x) == x % SizeTypeModulus

\* size_type -> difference_type (signed), as in iterator + size_type.
ToDiff(x) == IF x >= SizeTypeModulus \div 2 THEN x - SizeTypeModulus ELSE x

----------------------------------------------------------------------------
\* Results of a call.

NoError == [type |-> "none", what |-> ""]
Void == [kind |-> "void"]
Value(x) == [kind |-> "value", val |-> x]
\* An iterator returned by a call: cur says it was built from begin() of the
\* buffer the vector holds when the call returns.
Iterator(cur, off) == [kind |-> "iterator", cur |-> cur, off |-> off]

Ok(x, r, re) == [v |-> x, err |-> NoError, ret |-> r, realloc |-> re, ub |-> FALSE]
Throw(x, type, what) ==
    [v |-> x, err |-> [type |-> type, what |-> what], ret |-> Void,
     realloc |-> FALSE, ub |-> FALSE]

----------------------------------------------------------------------------
\* Storage.

\* new value_type[n]: a non-null array of n indeterminate slots.
NewArray(n) == {[null |-> FALSE, cell |-> c] : c \in [1..n -> Vals]}

\* m_storage[i] = x; a write outside the array lands in foreign memory.
Put(cells, i, x) ==
    IF i >= 0 /\ i < Len(cells) THEN [cells EXCEPT ![i + 1] = x] ELSE cells

Get(cells, i) == cells[i + 1]

\* std::copy(first, last, d_first) within one array, front to back.
RECURSIVE std_copy(_, _, _, _)
std_copy(cells, first, last, d_first) ==
    IF first >= last THEN cells
    ELSE std_copy(Put(cells, d_first, Get(cells, first)), first + 1, last, d_first + 1)

\* std::copy_backward(first, last, d_last) within one array, back to front.
RECURSIVE std_copy_backward(_, _, _, _)
std_copy_backward(cells, first, last, d_last) ==
    IF first >= last THEN cells
    ELSE std_copy_backward(Put(cells, d_last - 1, Get(cells, last - 1)),
                           first, last - 1, d_last - 1)

\* std::copy of an input sequence into the array from offset d_first.
RECURSIVE copy_in(_, _, _)
copy_in(cells, input, d_first) ==
    IF input = <<>> THEN cells
    ELSE copy_in(Put(cells, d_first, Head(input)), Tail(input), d_first + 1)

\* std::fill(first, last, value).
RECURSIVE std_fill(_, _, _, _)
std_fill(cells, first, last, value) ==
    IF first >= last THEN cells
    ELSE std_fill(Put(cells, first, value), first + 1, last, value)

----------------------------------------------------------------------------
\* Capacity and iterators.

size(x) == x.m_end
capacity(x) == x.m_capacity
empty(x) == size(x) = 0
full(x) == size(x) = capacity(x)
begin(x) == 0
end(x) == ToDiff(size(x))

----------------------------------------------------------------------------
\* Constructors.

\* vector(count) that allocates no array when count is 0.
vector_no_alloc(count) ==
    IF count = 0
    THEN {[m_end |-> 0, m_capacity |-> 0, m_storage |-> [null |-> TRUE, cell |-> <<>>]]}
    ELSE {[m_end |-> count, m_capacity |-> count,
           m_storage |-> [null |-> FALSE, cell |-> std_fill(a.cell, 0, count, x)]] :
             a \in NewArray(count), x \in Vals}

\* vector(count): every slot is filled with one indeterminate value.
vector(count) ==
    {[m_end |-> count, m_capacity |-> count,
      m_storage |-> [null |-> FALSE, cell |-> std_fill(a.cell, 0, count, x)]] :
        a \in NewArray(count), x \in Vals}

\* vector(initializer_list).
vector_ilist(il) ==
    {[m_end |-> Len(il), m_capacity |-> Len(il),
      m_storage |-> [null |-> FALSE, cell |-> copy_in(a.cell, il, 0)]] :
        a \in NewArray(Len(il))}

\* vector(first, last) over an input sequence.
vector_range(input) ==
    {[m_end |-> Len(input), m_capacity |-> Len(input),
      m_storage |-> [null |-> FALSE, cell |-> copy_in(a.cell, input, 0)]] :
        a \in NewArray(Len(input))}

\* vector(const vector& other): a new array of other's capacity, into which
\* its live elements are copied.
vector_copy(other_) ==
    {[m_end |-> size(other_), m_capacity |-> capacity(other_),
      m_storage |-> [null |-> FALSE,
                     cell |-> [i \in 1..capacity(other_) |->
                                  IF i <= size(other_) THEN other_.m_storage.cell[i]
                                  ELSE a.cell[i]]]] :
        a \in NewArray(capacity(other_))}

\* operator= that takes the three members of rhs as they are: the pointer,
\* not a copy of the array.
operator_assign_shallow(x, rhs, same_object) == {Ok(rhs, Void, FALSE)}

\* operator=(const vector& rhs); same_object is this == &rhs.
operator_assign(x, rhs, same_object) ==
    IF same_object THEN {Ok(x, Void, FALSE)}
    ELSE {Ok([m_end |-> size(rhs), m_capacity |-> capacity(rhs),
              m_storage |-> [null |-> FALSE,
                             cell |-> [i \in 1..capacity(rhs) |->
                                          IF i <= size(rhs) THEN rhs.m_storage.cell[i]
                                          ELSE a.cell[i]]]],
             Void, TRUE) : a \in NewArray(capacity(rhs))}

\* swap(first_, second_): the three members of the two vectors exchanged.
swap(first_, second_) == [first_ |-> second_, second_ |-> first_]

----------------------------------------------------------------------------
\* Modifiers.

\* reserve that installs the new array without copying the elements into it.
reserve_no_copy(x, new_capacity) ==
    IF new_capacity <= capacity(x) THEN {Ok(x, Void, FALSE)}
    ELSE {Ok([m_end |-> x.m_end, m_capacity |-> new_capacity, m_storage |-> a],
             Void, TRUE) : a \in NewArray(new_capacity)}

reserve(x, new_capacity) ==
    IF new_capacity <= capacity(x) THEN {Ok(x, Void, FALSE)}
    ELSE {Ok([m_end |-> x.m_end, m_capacity |-> new_capacity,
              m_storage |-> [null |-> FALSE,
                             cell |-> [i \in 1..new_capacity |->
                                          IF i <= size(x) THEN x.m_storage.cell[i]
                                          ELSE a.cell[i]]]],
             Void, TRUE) : a \in NewArray(new_capacity)}

\* Grow with the capacity raised by one slot instead of doubled.
Grow_by_one(x) ==
    IF full(x) THEN reserve(x, capacity(x) + 1) ELSE {Ok(x, Void, FALSE)}

\* The growth step shared by push_back and insert(pos, value).
Grow(x) ==
    IF full(x)
    THEN (IF capacity(x) > 0 THEN reserve(x, capacity(x) * 2) ELSE reserve(x, 1))
    ELSE {Ok(x, Void, FALSE)}

push_back(x, value) ==
    {Ok([g.v EXCEPT !.m_storage.cell = Put(@, size(g.v), value),
                    !.m_end = ToSize(@ + 1)],
        Void, g.realloc) : g \in Grow(x)}

\* pop_back without the check for an empty vector.
pop_back_unchecked(x) ==
    {Ok([x EXCEPT !.m_storage.cell = Put(@, ToDiff(ToSize(size(x) - 1)), DefaultValue),
                  !.m_end = ToSize(@ - 1)],
        Void, FALSE)}

pop_back(x) ==
    IF empty(x)
    THEN {Throw(x, "out_of_range", "vector::pop_back(): vector is empty")}
    ELSE {Ok([x EXCEPT !.m_storage.cell = Put(@, size(x) - 1, DefaultValue),
                       !.m_end = ToSize(@ - 1)],
             Void, FALSE)}

\* insert(pos_, value_) that shifts the tail with a front-to-back copy.
insert_forward_copy(x, pos_, value_) ==
    LET offset_pos == ToSize(pos_ - begin(x)) IN
    IF offset_pos > size(x)
    THEN {Throw(x, "out_of_range", "vector::insert(): invalid range")}
    ELSE {Ok([g.v EXCEPT
                 !.m_storage.cell =
                     Put(std_copy(@, begin(g.v) + ToDiff(offset_pos), end(g.v),
                                  begin(g.v) + ToDiff(offset_pos) + 1),
                         ToDiff(offset_pos), value_),
                 !.m_end = ToSize(@ + 1)],
             Iterator(TRUE, begin(g.v) + ToDiff(offset_pos)),
             g.realloc) : g \in Grow(x)}

\* insert(iterator pos_, const_reference value_); the const_iterator
\* overload has the same body.
insert(x, pos_, value_) ==
    IF x.m_storage.null
    THEN {Throw(x, "runtime_error", "vector::insert(): vector is empty")}
    ELSE LET offset_pos == ToSize(pos_ - begin(x)) IN
         IF offset_pos < 0 \/ offset_pos > size(x)
         THEN {Throw(x, "out_of_range", "vector::insert(): invalid range")}
         ELSE {Ok([g.v EXCEPT
                      !.m_storage.cell =
                          Put(std_copy_backward(@, begin(g.v) + ToDiff(offset_pos),
                                                end(g.v), end(g.v) + 1),
                              ToDiff(offset_pos), value_),
                      !.m_end = ToSize(@ + 1)],
                  Iterator(TRUE, begin(g.v) + ToDiff(offset_pos)),
                  g.realloc) : g \in Grow(x)}

\* insert(pos_, first_, last_) that reserves the room before it checks pos_.
insert_range_reserve_first(x, pos_, src, first_, last_) ==
    IF first_ >= last_
    THEN {Throw(x, "invalid_argument", "vector::insert: invalid input list")}
    ELSE LET input_list_size == ToSize(last_ - first_)
             offset_pos == ToSize(pos_ - begin(x))
             grown == IF capacity(x) < ToSize(size(x) + input_list_size)
                      THEN reserve(x, ToSize(size(x) + input_list_size))
                      ELSE {Ok(x, Void, FALSE)}
         IN  IF offset_pos > size(x)
             THEN {Throw(g.v, "out_of_range", "vector::insert(): invalid range") :
                      g \in grown}
             ELSE {Ok([g.v EXCEPT
                         !.m_storage.cell =
                             copy_in(std_copy_backward(
                                         @, begin(g.v) + ToDiff(offset_pos),
                                         end(g.v),
                                         end(g.v) + ToDiff(input_list_size)),
                                     SubSeq(src, first_ + 1, last_),
                                     begin(g.v) + ToDiff(offset_pos)),
                         !.m_end = ToSize(@ + input_list_size)],
                     Iterator(TRUE, begin(g.v) + ToDiff(offset_pos)),
                     g.realloc) : g \in grown}

\* insert(pos_, first_, last_) that grows by doubling, as insert(pos_, value_)
\* does, when the doubled capacity is enough.
insert_range_doubling(x, pos_, src, first_, last_) ==
    IF first_ >= last_
    THEN {Throw(x, "invalid_argument", "vector::insert: invalid input list")}
    ELSE LET input_list_size == ToSize(last_ - first_)
             offset_pos == ToSize(pos_ - begin(x))
             needed == ToSize(size(x) + input_list_size)
         IN  IF offset_pos > size(x)
             THEN {Throw(x, "out_of_range", "vector::insert(): invalid range")}
             ELSE LET grown ==
                          IF capacity(x) < needed
                          THEN reserve(x, IF capacity(x) * 2 > needed
                                          THEN capacity(x) * 2 ELSE needed)
                          ELSE {Ok(x, Void, FALSE)}
                  IN  {Ok([g.v EXCEPT
                              !.m_storage.cell =
                                  copy_in(std_copy_backward(
                                              @, begin(g.v) + ToDiff(offset_pos),
                                              end(g.v),
                                              end(g.v) + ToDiff(input_list_size)),
                                          SubSeq(src, first_ + 1, last_),
                                          begin(g.v) + ToDiff(offset_pos)),
                              !.m_end = ToSize(@ + input_list_size)],
                          Iterator(TRUE, begin(g.v) + ToDiff(offset_pos)),
                          g.realloc) : g \in grown}

\* insert(iterator pos_, InputItr first_, InputItr last_); first_ and last_
\* are positions 0..Len(src) in an array src that is not the vector's own.
insert_range(x, pos_, src, first_, last_) ==
    IF x.m_storage.null
    THEN {Throw(x, "runtime_error", "vector::insert(): vector is empty")}
    ELSE IF first_ >= last_
    THEN {Throw(x, "invalid_argument", "vector::insert: invalid input list")}
    ELSE LET input_list_size == ToSize(last_ - first_)
             offset_pos == ToSize(pos_ - begin(x))
         IN  IF offset_pos < 0 \/ offset_pos > size(x)
             THEN {Throw(x, "out_of_range", "vector::insert(): invalid range")}
             ELSE LET grown ==
                          IF capacity(x) < ToSize(size(x) + input_list_size)
                          THEN reserve(x, ToSize(size(x) + input_list_size))
                          ELSE {Ok(x, Void, FALSE)}
                  IN  {Ok([g.v EXCEPT
                              !.m_storage.cell =
                                  copy_in(std_copy_backward(
                                              @, begin(g.v) + ToDiff(offset_pos),
                                              end(g.v),
                                              end(g.v) + ToDiff(input_list_size)),
                                          SubSeq(src, first_ + 1, last_),
                                          begin(g.v) + ToDiff(offset_pos)),
                              !.m_end = ToSize(@ + input_list_size)],
                          Iterator(TRUE, begin(g.v) + ToDiff(offset_pos)),
                          g.realloc) : g \in grown}

\* insert(iterator pos_, const std::initializer_list<value_type>& ilist_).
insert_ilist(x, pos_, ilist_) == insert_range(x, pos_, ilist_, 0, Len(ilist_))

shrink_to_fit(x) ==
    IF capacity(x) <= size(x) THEN {Ok(x, Void, FALSE)}
    ELSE {Ok([m_end |-> x.m_end, m_capacity |-> size(x),
              m_storage |-> [null |-> FALSE,
                             cell |-> [i \in 1..size(x) |-> x.m_storage.cell[i]]]],
             Void, TRUE)}

\* The reallocation step shared by the three assign overloads.
GrowTo(x, n) == IF n > capacity(x) THEN reserve(x, n) ELSE {Ok(x, Void, FALSE)}

\* assign(size_type count_, const_reference value_).
assign(x, count_, value_) ==
    {Ok([g.v EXCEPT !.m_storage.cell = std_fill(@, begin(g.v), begin(g.v) + count_, value_),
                    !.m_end = count_],
        Void, g.realloc) : g \in GrowTo(x, count_)}

\* assign(ilist) that raises m_end to the list's length but never lowers it.
assign_ilist_keep_end(x, ilist) ==
    {Ok([g.v EXCEPT !.m_storage.cell = copy_in(@, ilist, begin(g.v)),
                    !.m_end = IF Len(ilist) > @ THEN Len(ilist) ELSE @],
        Void, g.realloc) : g \in GrowTo(x, Len(ilist))}

\* assign(const std::initializer_list<T>& ilist).
assign_ilist(x, ilist) ==
    {Ok([g.v EXCEPT !.m_storage.cell = copy_in(@, ilist, begin(g.v)),
                    !.m_end = Len(ilist)],
        Void, g.realloc) : g \in GrowTo(x, Len(ilist))}

\* assign(InputItr first, InputItr last) over an input sequence.
assign_range(x, input) ==
    {Ok([g.v EXCEPT !.m_storage.cell = copy_in(@, input, begin(g.v)),
                    !.m_end = ToSize(Len(input))],
        Void, g.realloc) : g \in GrowTo(x, ToSize(Len(input)))}

\* clear that resets the slots of the array it has instead of replacing it.
clear_in_place(x) ==
    {Ok([x EXCEPT !.m_storage.cell = std_fill(@, 0, capacity(x), DefaultValue),
                  !.m_end = 0],
        Void, FALSE)}

clear(x) ==
    {Ok([m_end |-> 0, m_capacity |-> x.m_capacity, m_storage |-> a], Void, TRUE) :
        a \in NewArray(capacity(x))}

\* erase(first, last) that rejects an inverted range but lets an empty one
\* (first = last) through.
erase_range_strict(x, first, last) ==
    IF empty(x)
    THEN {Throw(x, "out_of_range", "vector::erase(): empty vector")}
    ELSE IF first > last
    THEN {Throw(x, "invalid_argument", "vector::erase(): invalid range")}
    ELSE LET input_list_size == ToSize(last - first)
             offset_first == ToSize(first - begin(x))
             offset_last == ToSize(last - begin(x))
         IN  IF offset_last > size(x)
             THEN {Throw(x, "out_of_range", "vector::erase(): invalid range")}
             ELSE LET src_first == begin(x) + ToDiff(offset_first) + ToDiff(input_list_size)
                      d_first == begin(x) + ToDiff(offset_first)
                  IN  {[Ok([x EXCEPT
                               !.m_storage.cell = std_copy(@, src_first, end(x), d_first),
                               !.m_end = ToSize((end(x) - begin(x)) - input_list_size)],
                           Iterator(TRUE, begin(x) + ToDiff(offset_first)),
                           FALSE)
                        EXCEPT !.ub = d_first < 0 /\ src_first < end(x)]}

\* erase(first, last) that closes the gap from one slot too early.
erase_range_off_by_one(x, first, last) ==
    IF empty(x)
    THEN {Throw(x, "out_of_range", "vector::erase(): empty vector")}
    ELSE IF first >= last
    THEN {Throw(x, "invalid_argument", "vector::erase(): invalid range")}
    ELSE LET input_list_size == ToSize(last - first)
             offset_first == ToSize(first - begin(x))
             offset_last == ToSize(last - begin(x))
         IN  IF offset_last > size(x)
             THEN {Throw(x, "out_of_range", "vector::erase(): invalid range")}
             ELSE LET src_first == begin(x) + ToDiff(offset_first)
                                       + ToDiff(input_list_size) - 1
                      d_first == begin(x) + ToDiff(offset_first)
                  IN  {[Ok([x EXCEPT
                               !.m_storage.cell = std_copy(@, src_first, end(x), d_first),
                               !.m_end = ToSize((end(x) - begin(x)) - input_list_size)],
                           Iterator(TRUE, begin(x) + ToDiff(offset_first)),
                           FALSE)
                        EXCEPT !.ub = d_first < 0 /\ src_first < end(x)]}

\* erase(iterator first, iterator last); the const_iterator overload has the
\* same body.  offset_first < 0 is a comparison of an unsigned value.
erase_range(x, first, last) ==
    IF x.m_storage.null
    THEN {Throw(x, "runtime_error", "vector::erase(): vector is empty")}
    ELSE IF empty(x)
    THEN {Throw(x, "out_of_range", "vector::erase(): empty vector")}
    ELSE IF first >= last
    THEN {Throw(x, "invalid_argument", "vector::erase(): invalid range")}
    ELSE LET input_list_size == ToSize(last - first)
             offset_first == ToSize(first - begin(x))
             offset_last == ToSize(last - begin(x))
         IN  IF offset_first < 0 \/ offset_last > size(x)
             THEN {Throw(x, "out_of_range", "vector::erase(): invalid range")}
             ELSE LET src_first == begin(x) + ToDiff(offset_first) + ToDiff(input_list_size)
                      d_first == begin(x) + ToDiff(offset_first)
                  IN  {[Ok([x EXCEPT
                               !.m_storage.cell = std_copy(@, src_first, end(x), d_first),
                               !.m_end = ToSize((end(x) - begin(x)) - input_list_size)],
                           Iterator(TRUE, begin(x) + ToDiff(offset_first)),
                           FALSE)
                        EXCEPT !.ub = d_first < 0 /\ src_first < end(x)]}

\* erase(pos) that erases the element after pos.
erase_following(x, pos) == erase_range(x, pos + 1, pos + 2)

\* erase(iterator pos).
erase(x, pos) == erase_range(x, pos, pos + 1)

----------------------------------------------------------------------------
\* Element access.

\* The element m_storage[pos] designates: a slot of the array, or, outside
\* the array, whatever the neighbouring memory holds.
Deref(x, pos) ==
    IF ToDiff(pos) >= 0 /\ ToDiff(pos) < capacity(x)
    THEN {Ok(x, Value(Get(x.m_storage.cell, pos)), FALSE)}
    ELSE {[Ok(x, Value(any), FALSE) EXCEPT !.ub = TRUE] : any \in Vals}

\* operator[](size_type pos), const and non-const, read.
operator_index(x, pos) == Deref(x, pos)

\* operator[](size_type pos) = value, through the reference returned.
operator_index_assign(x, pos, value) ==
    {Ok([x EXCEPT !.m_storage.cell = Put(@, pos, value)], Void, FALSE)}

\* at(pos) whose bound check lets pos = m_end through.
at_off_by_one(x, pos) ==
    IF pos > x.m_end THEN {Throw(x, "out_of_range", "Index out of bounds.")}
    ELSE Deref(x, pos)

\* at(size_type pos), const and non-const.
at(x, pos) ==
    IF pos >= x.m_end THEN {Throw(x, "out_of_range", "Index out of bounds.")}
    ELSE Deref(x, pos)

front_const(x) == at(x, 0)
back_const(x) == at(x, ToSize(size(x) - 1))
front(x) == at(x, 0)
back(x) == Deref(x, ToSize(size(x) - 1))

----------------------------------------------------------------------------
\* Comparison.

\* equal that also compares the capacities and the slots beyond size.
equal_whole_storage(va, vb) ==
    /\ size(va) = size(vb)
    /\ capacity(va) = capacity(vb)
    /\ va.m_storage.cell = vb.m_storage.cell

\* equal(va, vb).
equal(va, vb) ==
    IF size(va) # size(vb) THEN FALSE
    ELSE \A i \in 0..(size(va) - 1) :
            \A a \in at(va, i), b \in at(vb, i) : a.ret = b.ret

\* operator==(va, vb) and operator!=(va, vb).
operator_eq(va, vb) == equal(va, vb)
operator_ne(va, vb) == ~equal(va, vb)

----------------------------------------------------------------------------
\* The calls.

\* The state of a program that has one vector only: no second vector.
NoVector == [m_end |-> 0, m_capacity |-> 0, m_storage |-> [null |-> TRUE, cell |-> <<>>]]

Record(o, call) ==
    /\ v' = o.v
    /\ err' = o.err
    /\ ret' = o.ret
    /\ ub' = (o.ub \/ o.v.m_end > o.v.m_capacity)
    /\ pre' = v
    /\ moved' = o.realloc
    /\ op' = call
    /\ pre_other' = other
    /\ UNCHANGED <<other, shared>>

\* Between two calls: the caller has taken the result of the last call, and
\* that call left the vector in a state whose behaviour is defined.
Idle == op.name = "idle" /\ ~ub

Construct(x, call) ==
    /\ v = x
    /\ pre = x
    /\ err = NoError
    /\ ret = Void
    /\ ub = FALSE
    /\ moved = FALSE
    /\ op = call
    /\ other = NoVector
    /\ pre_other = NoVector
    /\ shared = FALSE

Init ==
    \/ \E count \in 0..MaxCap : \E x \in vector(count) :
          Construct(x, [name |-> "vector", count |-> count])
    \/ \E il \in Lists : \E x \in vector_ilist(il) :
          Construct(x, [name |-> "vector_ilist", il |-> il])
    \/ \E input \in Lists : \E x \in vector_range(input) :
          Construct(x, [name |-> "vector_range", input |-> input])

PushBack ==
    /\ Idle
    /\ full(v) => capacity(v) * 2 <= MaxCap
    /\ \E value \in Vals : \E o \in push_back(v, value) :
          Record(o, [name |-> "push_back", value |-> value])

PopBack ==
    /\ Idle
    /\ \E o \in pop_back(v) : Record(o, [name |-> "pop_back"])

Reserve ==
    /\ Idle
    /\ \E n \in 0..MaxCap : \E o \in reserve(v, n) :
          Record(o, [name |-> "reserve", new_capacity |-> n])

\* Iterator arguments: every offset from one before begin() to one past the
\* end of the storage.
Offsets == -1 .. (capacity(v) + 1)

\* Input ranges [first_, last_) over an array src: the whole array, in order
\* or with the two iterators exchanged.
Ranges == {[src |-> s, first |-> 0, last |-> Len(s)] : s \in Lists}
          \cup {[src |-> s, first |-> Len(s), last |-> 0] : s \in Lists}

Insert ==
    /\ Idle
    /\ full(v) => capacity(v) * 2 <= MaxCap
    /\ \E pos_ \in Offsets, value_ \in Vals : \E o \in insert(v, pos_, value_) :
          Record(o, [name |-> "insert", pos |-> pos_, value |-> value_])

InsertRange ==
    /\ Idle
    /\ \E pos_ \in Offsets, r \in Ranges :
          /\ size(v) + (r.last - r.first) <= MaxCap
          /\ \E o \in insert_range(v, pos_, r.src, r.first, r.last) :
                Record(o, [name |-> "insert_range", pos |-> pos_, src |-> r.src,
                           first |-> r.first, last |-> r.last])

InsertIlist ==
    /\ Idle
    /\ \E pos_ \in Offsets, ilist_ \in Lists :
          /\ size(v) + Len(ilist_) <= MaxCap
          /\ \E o \in insert_ilist(v, pos_, ilist_) :
                Record(o, [name |-> "insert_ilist", pos |-> pos_, ilist |-> ilist_])

ShrinkToFit ==
    /\ Idle
    /\ \E o \in shrink_to_fit(v) : Record(o, [name |-> "shrink_to_fit"])

Assign ==
    /\ Idle
    /\ \E count_ \in 0..MaxCap, value_ \in Vals : \E o \in assign(v, count_, value_) :
          Record(o, [name |-> "assign", count |-> count_, value |-> value_])

AssignIlist ==
    /\ Idle
    /\ \E ilist \in Lists : \E o \in assign_ilist(v, ilist) :
          Record(o, [name |-> "assign_ilist", ilist |-> ilist])

AssignRange ==
    /\ Idle
    /\ \E input \in Lists : \E o \in assign_range(v, input) :
          Record(o, [name |-> "assign_range", input |-> input])

Clear ==
    /\ Idle
    /\ \E o \in clear(v) : Record(o, [name |-> "clear"])

EraseRange ==
    /\ Idle
    /\ \E first \in Offsets, last \in Offsets : \E o \in erase_range(v, first, last) :
          Record(o, [name |-> "erase_range", first |-> first, last |-> last])

Erase ==
    /\ Idle
    /\ \E pos \in Offsets : \E o \in erase(v, pos) :
          Record(o, [name |-> "erase", pos |-> pos])

\* Index arguments of at: every index up to one past the capacity.
OperatorIndex ==
    /\ Idle
    /\ \E pos \in 0..(capacity(v) - 1) : \E o \in operator_index(v, pos) :
          Record(o, [name |-> "operator_index", pos |-> pos])

OperatorIndexAssign ==
    /\ Idle
    /\ \E pos \in 0..(capacity(v) - 1), value \in Vals :
          \E o \in operator_index_assign(v, pos, value) :
             Record(o, [name |-> "operator_index_assign", pos |-> pos, value |-> value])

At ==
    /\ Idle
    /\ \E pos \in 0..(capacity(v) + 1) : \E o \in at(v, pos) :
          Record(o, [name |-> "at", pos |-> pos])

Front ==
    /\ Idle
    /\ \E o \in front(v) : Record(o, [name |-> "front"])

FrontConst ==
    /\ Idle
    /\ \E o \in front_const(v) : Record(o, [name |-> "front_const"])

Back ==
    /\ Idle
    /\ \E o \in back(v) : Record(o, [name |-> "back"])

BackConst ==
    /\ Idle
    /\ \E o \in back_const(v) : Record(o, [name |-> "back_const"])

\* The other vector of a call with two vectors: one built from a value list.
Others == UNION {vector_ilist(il) : il \in Lists}

CopyAssign ==
    /\ Idle
    /\ \E rhs \in Others : \E o \in operator_assign(v, rhs, FALSE) :
          Record(o, [name |-> "operator_assign", rhs |-> rhs, same_object |-> FALSE])

CopyAssignSelf ==
    /\ Idle
    /\ \E o \in operator_assign(v, v, TRUE) :
          Record(o, [name |-> "operator_assign", rhs |-> v, same_object |-> TRUE])

Swap ==
    /\ Idle
    /\ \E second_ \in Others :
          Record(Ok(swap(v, second_).first_, Void, TRUE),
                 [name |-> "swap", second |-> second_])

OperatorEq ==
    /\ Idle
    /\ \E vb \in Others :
          Record(Ok(v, Value(operator_eq(v, vb)), FALSE),
                 [name |-> "operator_eq", vb |-> vb])

OperatorNe ==
    /\ Idle
    /\ \E vb \in Others :
          Record(Ok(v, Value(operator_ne(v, vb)), FALSE),
                 [name |-> "operator_ne", vb |-> vb])

\* The call returns to its caller, which takes the result or catches the
\* exception; the vector is then ready for the next call.
Return ==
    /\ op.name # "idle"
    /\ ~ub
    /\ op' = [name |-> "idle"]
    /\ err' = NoError
    /\ ret' = Void
    /\ pre' = v
    /\ moved' = FALSE
    /\ pre_other' = other
    /\ UNCHANGED <<v, ub, other, shared>>

Next ==
    \/ Return
    \/ PushBack
    \/ PopBack
    \/ Reserve
    \/ ShrinkToFit
    \/ Insert
    \/ InsertRange
    \/ InsertIlist
    \/ Assign
    \/ AssignIlist
    \/ AssignRange
    \/ Clear
    \/ EraseRange
    \/ Erase
    \/ OperatorIndex
    \/ OperatorIndexAssign
    \/ At
    \/ Front
    \/ FrontConst
    \/ Back
    \/ BackConst
    \/ CopyAssign
    \/ CopyAssignSelf
    \/ Swap
    \/ OperatorEq
    \/ OperatorNe

Spec == Init /\ [][Next]_vars

----------------------------------------------------------------------------
\* Two vectors, the first a copy of the second.  Each owns its array through
\* its own m_storage; shared says that the two m_storage point to the same
\* array, so that what a call writes through the one is read through the
\* other.

Targets == {"this", "other"}

On(target) == IF target = "this" THEN v ELSE other

\* The vector a call was not made on, after a call whose outcome is o: it
\* sees the array the call wrote to if the two vectors hold the same array
\* and the call kept it.
Untouched(y, o) ==
    IF shared /\ ~o.realloc THEN [y EXCEPT !.m_storage = o.v.m_storage] ELSE y

RecordOn(target, o, call, shared_) ==
    /\ v' = IF target = "this" THEN o.v ELSE Untouched(v, o)
    /\ other' = IF target = "other" THEN o.v ELSE Untouched(other, o)
    /\ shared' = shared_
    /\ err' = o.err
    /\ ret' = o.ret
    /\ ub' = (o.ub \/ o.v.m_end > o.v.m_capacity)
    /\ pre' = v
    /\ pre_other' = other
    /\ moved' = o.realloc
    /\ op' = call

InitCopy ==
    \E il \in Lists : \E y \in vector_ilist(il) : \E x \in vector_copy(y) :
       /\ v = x
       /\ other = y
       /\ pre = x
       /\ pre_other = y
       /\ shared = FALSE
       /\ err = NoError
       /\ ret = Void
       /\ ub = FALSE
       /\ moved = FALSE
       /\ op = [name |-> "vector_copy", on |-> "this"]

PushBackOn ==
    /\ Idle
    /\ \E t \in Targets :
          /\ full(On(t)) => capacity(On(t)) * 2 <= MaxCopyCap
          /\ \E value \in Vals : \E o \in push_back(On(t), value) :
                RecordOn(t, o, [name |-> "push_back", on |-> t, value |-> value],
                         shared /\ ~o.realloc)

PopBackOn ==
    /\ Idle
    /\ \E t \in Targets : \E o \in pop_back(On(t)) :
          RecordOn(t, o, [name |-> "pop_back", on |-> t], shared /\ ~o.realloc)

EraseOn ==
    /\ Idle
    /\ \E t \in Targets : \E pos \in -1 .. (capacity(On(t)) + 1) :
          \E o \in erase(On(t), pos) :
             RecordOn(t, o, [name |-> "erase", on |-> t, pos |-> pos],
                      shared /\ ~o.realloc)

ClearOn ==
    /\ Idle
    /\ \E t \in Targets : \E o \in clear(On(t)) :
          RecordOn(t, o, [name |-> "clear", on |-> t], shared /\ ~o.realloc)

OperatorIndexAssignOn ==
    /\ Idle
    /\ \E t \in Targets : \E pos \in 0..(capacity(On(t)) - 1), value \in Vals :
          \E o \in operator_index_assign(On(t), pos, value) :
             RecordOn(t, o, [name |-> "operator_index_assign", on |-> t,
                             pos |-> pos, value |-> value],
                      shared /\ ~o.realloc)

\* this = other, or other = this.  The destination's elements are in the
\* array operator= allocates for them; a destination that has the members
\* of rhs without that allocation holds the array of rhs.
CopyAssignOn ==
    /\ Idle
    /\ \E t \in Targets :
          LET rhs == IF t = "this" THEN other ELSE v IN
          \E o \in operator_assign(On(t), rhs, FALSE) :
             /\ v' = IF t = "this" THEN o.v ELSE v
             /\ other' = IF t = "other" THEN o.v ELSE other
             /\ shared' = ~o.realloc
             /\ err' = o.err
             /\ ret' = o.ret
             /\ ub' = o.ub
             /\ pre' = v
             /\ pre_other' = other
             /\ moved' = o.realloc
             /\ op' = [name |-> "operator_assign", on |-> t, same_object |-> FALSE]

\* this = this, or other = other.
CopyAssignSelfOn ==
    /\ Idle
    /\ \E t \in Targets : \E o \in operator_assign(On(t), On(t), TRUE) :
          RecordOn(t, o, [name |-> "operator_assign", on |-> t, same_object |-> TRUE],
                   shared /\ ~o.realloc)

NextCopy ==
    \/ Return
    \/ PushBackOn
    \/ PopBackOn
    \/ EraseOn
    \/ ClearOn
    \/ OperatorIndexAssignOn
    \/ CopyAssignOn
    \/ CopyAssignSelfOn

SpecCopy == InitCopy /\ [][NextCopy]_vars


----------------------------------------------------------------------------
\* Properties.

\* The live elements [0, size) of a vector, in order.
Live(x) == SubSeq(x.m_storage.cell, 1, size(x))

Slot(x, i) == Get(x.m_storage.cell, i)

Succeeded == err = NoError
Failed(type) == err.type = type /\ v = pre

\* The capacity after a call that grows a full vector by the doubling policy.
Doubled(x) ==
    IF full(x) THEN (IF capacity(x) = 0 THEN 1 ELSE 2 * capacity(x)) ELSE capacity(x)

\* C1: in every state reached from a constructor by public calls, including
\* calls that end in an error, 0 <= size() <= capacity().
C1_SizeWithinCapacity == 0 <= size(v) /\ size(v) <= capacity(v)

\* C2: in every reachable state every slot at an index in [size, capacity)
\* holds the default value: vacated slots are reset, never left stale.
C2_UnusedSlotsDefault ==
    \A i \in 0..(capacity(v) - 1) : i >= size(v) => Slot(v, i) = DefaultValue

\* C3: push_back(value) never fails; a full vector doubles its capacity (1
\* from 0), otherwise the capacity is unchanged; size grows by one, the new
\* last element is value and the earlier elements are unchanged.  Three
\* push_backs on a default-constructed vector give capacities 1, 2, 4.
C3_PushBack ==
    /\ op.name = "push_back" =>
          /\ Succeeded
          /\ capacity(v) = Doubled(pre)
          /\ size(v) = size(pre) + 1
          /\ Live(v) = Append(Live(pre), op.value)
    /\ (op.name = "vector" /\ op.count = 0) =>
          \A a \in Vals, b \in Vals, c \in Vals :
             \A o1 \in push_back(v, a) : \A o2 \in push_back(o1.v, b) :
                \A o3 \in push_back(o2.v, c) :
                   /\ capacity(o1.v) = 1 /\ size(o1.v) = 1
                   /\ capacity(o2.v) = 2 /\ size(o2.v) = 2
                   /\ capacity(o3.v) = 4 /\ size(o3.v) = 3
                   /\ Live(o3.v) = <<a, b, c>>

C3_PushBackGrows ==
    /\ op.name = "push_back"
    /\ size(pre) = 2 /\ capacity(pre) = 2
    /\ size(v) = 3 /\ capacity(v) = 4

\* C4: pop_back() on an empty vector signals an error; on a non-empty vector
\* it decrements size, keeps the capacity and the elements below the new
\* size, and writes the default value into the vacated slot.  push_back
\* followed by pop_back restores the prior size and live elements.
C4_PopBack ==
    /\ op.name = "pop_back" =>
          IF size(pre) = 0
          THEN Failed("out_of_range")
          ELSE /\ Succeeded
               /\ size(v) = size(pre) - 1
               /\ capacity(v) = capacity(pre)
               /\ Live(v) = SubSeq(Live(pre), 1, size(pre) - 1)
               /\ Slot(v, size(v)) = DefaultValue
    /\ op.name = "push_back" =>
          \A o \in pop_back(v) :
             /\ o.err = NoError
             /\ size(o.v) = size(pre)
             /\ Live(o.v) = Live(pre)

C4_PopBackOnEmpty ==
    /\ op.name = "pop_back"
    /\ size(pre) = 0 /\ capacity(pre) > 0
    /\ err.type = "out_of_range"

\* C5: at(i) signals an out-of-range error exactly when i >= size, also for
\* i in [size, capacity) such as the index pop_back has just vacated; for i
\* in [0, size) it returns the element operator[](i) returns, the value last
\* written at that index.
C5_At ==
    /\ op.name = "at" =>
          IF op.pos >= size(pre)
          THEN Failed("out_of_range")
          ELSE /\ Succeeded
               /\ v = pre
               /\ \A o \in operator_index(v, op.pos) : ret = o.ret
               /\ ret = Value(Slot(pre, op.pos))
    /\ (op.name = "operator_index_assign" /\ op.pos < size(v)) =>
          \A o \in at(v, op.pos) : o.err = NoError /\ o.ret = Value(op.value)
    /\ (op.name = "pop_back" /\ Succeeded) =>
          \A o \in at(v, size(v)) : o.err.type = "out_of_range"

C5_AtBeyondSize ==
    /\ op.name = "at"
    /\ op.pos >= size(pre) /\ op.pos < capacity(pre)
    /\ err.type = "out_of_range"

\* C6: front() and back(), const and non-const, signal an error on an empty
\* vector; on a non-empty vector front() returns element 0 and back()
\* returns element size-1.
C6_FrontBackChecked ==
    op.name \in {"front", "front_const", "back", "back_const"} =>
       IF size(pre) = 0
       THEN err.type # "none"
       ELSE /\ Succeeded
            /\ op.name \in {"front", "front_const"} => ret = Value(Slot(pre, 0))
            /\ op.name \in {"back", "back_const"} => ret = Value(Slot(pre, size(pre) - 1))

\* C7: insert(pos, value) with pos at offset k in [0, size] yields
\* old[0..k) ++ <value> ++ old[k..size), grows size by one, doubles the
\* capacity (1 from 0) only if the vector was full, and returns an iterator
\* at offset k of the current buffer, designating the inserted value; with
\* pos outside [0, size] it signals a range error.
C7_Insert ==
    op.name = "insert" =>
       IF op.pos >= 0 /\ op.pos <= size(pre)
       THEN /\ Succeeded
            /\ Live(v) = SubSeq(Live(pre), 1, op.pos) \o <<op.value>>
                            \o SubSeq(Live(pre), op.pos + 1, size(pre))
            /\ size(v) = size(pre) + 1
            /\ capacity(v) = Doubled(pre)
            /\ ret = Iterator(TRUE, op.pos)
            /\ Slot(v, ret.off) = op.value
       ELSE Failed("out_of_range")

C7_InsertInsideFull ==
    /\ op.name = "insert"
    /\ op.pos > 0 /\ op.pos < size(pre)
    /\ full(pre)
    /\ Succeeded
    /\ capacity(v) = 2 * capacity(pre)

\* The input of a range or list insert, and whether it is non-empty and in
\* order.
InsertInput ==
    IF op.name = "insert_ilist" THEN op.ilist
    ELSE SubSeq(op.src, op.first + 1, op.last)

\* C8: insert(pos, first, last) and insert(pos, list) with a non-empty input
\* of length n and pos at offset k in [0, size] yield
\* old[0..k) ++ input ++ old[k..size) with size grown by n; the capacity
\* becomes exactly size+n when it was smaller and is unchanged otherwise;
\* the returned iterator is at offset k.
C8_InsertRange ==
    (/\ op.name \in {"insert_range", "insert_ilist"}
     /\ InsertInput # <<>>
     /\ op.pos >= 0 /\ op.pos <= size(pre)) =>
       /\ Succeeded
       /\ Live(v) = SubSeq(Live(pre), 1, op.pos) \o InsertInput
                       \o SubSeq(Live(pre), op.pos + 1, size(pre))
       /\ size(v) = size(pre) + Len(InsertInput)
       /\ capacity(v) = IF capacity(pre) < size(pre) + Len(InsertInput)
                        THEN size(pre) + Len(InsertInput)
                        ELSE capacity(pre)
       /\ ret = Iterator(TRUE, op.pos)

C8_InsertListAtBegin ==
    /\ op.name = "insert_ilist"
    /\ op.pos = 0 /\ Len(op.ilist) = 2
    /\ size(pre) = 2 /\ capacity(pre) = 2
    /\ size(v) = 4 /\ capacity(v) = 4
    /\ Live(v) = op.ilist \o Live(pre)

\* The range [a, b) an erase call was given.
EraseFirst == IF op.name = "erase" THEN op.pos ELSE op.first
EraseLast == IF op.name = "erase" THEN op.pos + 1 ELSE op.last

\* C9: erase(first, last) with offsets 0 <= a < b <= size yields
\* old[0..a) ++ old[b..size), reduces size by b-a, keeps the capacity and
\* returns an iterator at offset a, which designates the element that
\* followed the erased range, or end if none; erase(pos) is
\* erase(pos, pos+1).
C9_Erase ==
    (/\ op.name \in {"erase_range", "erase"}
     /\ 0 <= EraseFirst /\ EraseFirst < EraseLast /\ EraseLast <= size(pre)) =>
       /\ Succeeded
       /\ Live(v) = SubSeq(Live(pre), 1, EraseFirst)
                       \o SubSeq(Live(pre), EraseLast + 1, size(pre))
       /\ size(v) = size(pre) - (EraseLast - EraseFirst)
       /\ capacity(v) = capacity(pre)
       /\ ret = Iterator(TRUE, EraseFirst)
       /\ IF EraseLast < size(pre)
          THEN Slot(v, ret.off) = Slot(pre, EraseLast)
          ELSE ret.off = end(v)

C9_EraseMiddle ==
    /\ op.name = "erase_range"
    /\ op.first = 1 /\ op.last = 3
    /\ size(pre) = 4
    /\ size(v) = 2 /\ capacity(v) = capacity(pre)
    /\ Live(v) = <<Slot(pre, 0), Slot(pre, 3)>>

\* C10: erase(first, last) on a non-empty vector with first < last signals
\* an index-out-of-range error whenever the offset of first or of last lies
\* outside [0, size], also with first before begin or last past end, and
\* then changes neither size nor any element.
C10_EraseOffsetsChecked ==
    (/\ op.name = "erase_range"
     /\ size(pre) > 0
     /\ op.first < op.last
     /\ \/ op.first < 0 \/ op.first > size(pre)
        \/ op.last < 0 \/ op.last > size(pre)) =>
       Failed("out_of_range")

\* Whether a range insert or erase(first, last) call was given an empty or
\* inverted range.
BadRange ==
    IF op.name = "insert_ilist" THEN op.ilist = <<>> ELSE op.first >= op.last

\* C11 as stated: the range overloads of insert and erase(first, last)
\* signal an invalid-argument error for an empty or inverted range and leave
\* the vector as it was.
C11_BadRangeInvalidArgument ==
    (op.name \in {"insert_range", "insert_ilist", "erase_range"} /\ BadRange) =>
       Failed("invalid_argument")

\* C11 as amended: the same, except that erase(first, last) on an empty
\* vector signals the empty-container error (std::out_of_range) before it
\* looks at the range; the vector is unchanged in every case.
C11_BadRangeRejected ==
    (op.name \in {"insert_range", "insert_ilist", "erase_range"} /\ BadRange) =>
       IF op.name = "erase_range" /\ size(pre) = 0
       THEN Failed("out_of_range")
       ELSE Failed("invalid_argument")

C11_EraseInvertedRange ==
    /\ op.name = "erase_range"
    /\ size(pre) > 0
    /\ op.first > op.last /\ op.last >= 0 /\ op.first <= size(pre)
    /\ err.type = "invalid_argument"

Max(a, b) == IF a > b THEN a ELSE b

AssignContent ==
    IF op.name = "assign" THEN [i \in 1..op.count |-> op.value]
    ELSE IF op.name = "assign_ilist" THEN op.ilist
    ELSE op.input

\* C13: the three assign overloads with new content of length n leave
\* size = n, the live elements equal to the new content and
\* capacity = max(old capacity, n): never reduced, also when n is below the
\* old size.
C13_Assign ==
    op.name \in {"assign", "assign_ilist", "assign_range"} =>
       /\ Succeeded
       /\ size(v) = Len(AssignContent)
       /\ Live(v) = AssignContent
       /\ capacity(v) = Max(capacity(pre), Len(AssignContent))

C13_AssignShorter ==
    /\ op.name = "assign_ilist"
    /\ Len(op.ilist) > 0 /\ Len(op.ilist) < size(pre)
    /\ size(v) = Len(op.ilist)
    /\ capacity(v) = capacity(pre)

\* C17: insert(begin()+k, x) for k in [0, size], followed by erase of the
\* position insert returned, leaves the size and the live elements as they
\* were before the insert.
C17_InsertEraseRoundTrip ==
    (op.name = "insert" /\ Succeeded) =>
       \A o \in erase(v, ret.off) :
          /\ o.err = NoError
          /\ size(o.v) = size(pre)
          /\ Live(o.v) = Live(pre)

C17_InsertedAtFront ==
    /\ op.name = "insert"
    /\ Succeeded
    /\ op.pos = 0 /\ size(pre) >= 2
    /\ ret.off = 0

\* C18: a call that signals an error leaves size, capacity and every stored
\* element as they were, and signals one error of one kind.
C18_ErrorLeavesVectorUnchanged ==
    err.type # "none" =>
       /\ v = pre
       /\ ret = Void
       /\ err.type \in {"out_of_range", "invalid_argument", "runtime_error"}

C18_RejectedBeforeGrowth ==
    /\ op.name = "insert_range"
    /\ err.type = "out_of_range"
    /\ op.first < op.last
    /\ capacity(pre) < size(pre) + (op.last - op.first)

\* C14: operator== returns true exactly when the two vectors have the same
\* size and equal elements at every index in [0, size), whatever their
\* capacities and the slots beyond size; it is reflexive and symmetric, and
\* operator!= is its negation.  {a,b,c} built from a list (capacity 3) equals
\* the vector built by three push_backs (capacity 4).
C14_Equality ==
    /\ op.name \in {"operator_eq", "operator_ne"} =>
          LET same == size(v) = size(op.vb) /\ Live(v) = Live(op.vb) IN
          /\ op.name = "operator_eq" => ret = Value(same)
          /\ op.name = "operator_ne" => ret = Value(~same)
          /\ operator_eq(op.vb, v) = operator_eq(v, op.vb)
          /\ operator_ne(v, op.vb) = ~operator_eq(v, op.vb)
          /\ operator_eq(v, v) /\ operator_eq(op.vb, op.vb)
    /\ (op.name = "vector" /\ op.count = 0) =>
          \A a \in Vals, b \in Vals, c \in Vals :
             \A o1 \in push_back(v, a) : \A o2 \in push_back(o1.v, b) :
                \A o3 \in push_back(o2.v, c) : \A l \in vector_ilist(<<a, b, c>>) :
                   /\ capacity(l) = 3 /\ capacity(o3.v) = 4
                   /\ operator_eq(l, o3.v) /\ operator_eq(o3.v, l)
                   /\ ~operator_ne(l, o3.v)

C14_EqualDespiteCapacity ==
    /\ op.name = "operator_eq"
    /\ ret = Value(TRUE)
    /\ size(v) > 0
    /\ capacity(v) # capacity(op.vb)

\* The vector a call was made on and the one it was not made on, before and
\* after the call.
Target == IF op.on = "this" THEN v ELSE other
PreTarget == IF op.on = "this" THEN pre ELSE pre_other
Bystander == IF op.on = "this" THEN other ELSE v
PreBystander == IF op.on = "this" THEN pre_other ELSE pre

SameContent(x, y) ==
    /\ size(x) = size(y)
    /\ capacity(x) = capacity(y)
    /\ Live(x) = Live(y)

\* C15: copy construction and copy assignment give the destination the
\* source's size, capacity and live elements in an array of its own and
\* leave the source unchanged; self-assignment changes nothing; and a call
\* that mutates either vector (element write, push_back, pop_back, erase,
\* clear) within its buffer leaves the other's size, capacity and elements
\* unchanged.
C15_CopyIsIndependent ==
    /\ ~shared
    /\ op.name = "vector_copy" => SameContent(v, other)
    /\ (op.name = "operator_assign" /\ ~op.same_object) =>
          /\ SameContent(Target, PreBystander)
          /\ Bystander = PreBystander
    /\ (op.name = "operator_assign" /\ op.same_object) =>
          /\ v = pre
          /\ other = pre_other
    /\ (op.name \in {"push_back", "pop_back", "erase", "clear",
                     "operator_index_assign"} /\ ~ub) =>
          SameContent(Bystander, PreBystander)

C15_WriteAfterCopyAssign ==
    /\ op.name = "operator_index_assign"
    /\ op.pos < size(PreTarget)
    /\ SameContent(PreTarget, PreBystander)
    /\ capacity(Target) > size(Target)
    /\ Live(Target) # Live(PreTarget)
    /\ Live(Bystander) = Live(PreBystander)

\* The calls that add, remove or replace elements or change the capacity of
\* the one vector they are given.
Mutators ==
    {"push_back", "pop_back", "insert", "insert_range", "insert_ilist",
     "erase", "erase_range", "assign", "assign_ilist", "assign_range",
     "reserve", "shrink_to_fit", "clear"}

\* C16 as stated: an iterator issued by begin()/end() stops referring to the
\* vector's current buffer after a call that changes the capacity and keeps
\* referring to it across every call that leaves the capacity unchanged,
\* clear included.
C16_InvalidatedIffCapacityChanges ==
    (op.name \in Mutators /\ Succeeded) =>
       (moved <=> capacity(v) # capacity(pre))

\* C16 as amended: the same, except that clear replaces the buffer by a new
\* one of the same capacity, so it invalidates the iterators too.
C16_InvalidatedIffReallocated ==
    (op.name \in Mutators /\ Succeeded) =>
       (moved <=> (capacity(v) # capacity(pre) \/ op.name = "clear"))

C16_ClearReplacesBuffer ==
    /\ op.name = "clear"
    /\ capacity(pre) > 0 /\ capacity(v) = capacity(pre)
    /\ moved

\* C19: in every state reached through the constructors and the public
\* calls the vector holds an allocated buffer, so no insert or erase signals
\* the uninitialized-container error; insert(begin(), x) on a
\* default-constructed vector succeeds with size 1 and capacity 1, and erase
\* on it reports the empty-container error.
C19_AlwaysAllocated ==
    /\ ~v.m_storage.null
    /\ err.type # "runtime_error"
    /\ (op.name = "vector" /\ op.count = 0) =>
          /\ \A x \in Vals : \A o \in insert(v, begin(v), x) :
                /\ o.err = NoError
                /\ size(o.v) = 1 /\ capacity(o.v) = 1 /\ Live(o.v) = <<x>>
          /\ \A first \in -1..1, last \in -1..1 :
                \A o \in erase_range(v, first, last) \cup erase(v, first) :
                   /\ o.err = [type |-> "out_of_range",
                               what |-> "vector::erase(): empty vector"]
                   /\ o.v = v

C19_InsertAfterShrinkToZero ==
    /\ op.name = "insert"
    /\ capacity(pre) = 0
    /\ Succeeded
    /\ size(v) = 1 /\ capacity(v) = 1

====
